---- MODULE Spec2Model ----
(***************************************************************************)
(* Model of src/scaffold-tests.js: the promise pipeline                    *)
(*   getFileAndComponentName -> getComponentInfo -> getPropDefaults ->     *)
(*   generateTestCasesContent -> generateTestContent -> createTestsDir ->  *)
(*   createTestFiles -> printMessage, with .catch(formatMessage).          *)
(* Text is modelled as text: a string that a regular expression is applied *)
(* to is a sequence of one-character strings, an emitted line is a string. *)
(***************************************************************************)
EXTENDS Integers, Sequences, FiniteSets, TLC

\* Largest number of properties in a component's props object.
MaxProps == 2

----------------------------------------------------------------------------
\* Strings

RECURSIVE Join(_)
\* The string spelled by a sequence of one-character strings.
Join(cs) == IF cs = <<>> THEN "" ELSE Head(cs) \o Join(Tail(cs))

Take(s, n) == SubSeq(s, 1, n)
Drop(s, n) == SubSeq(s, n + 1, Len(s))

\* Whether the literal lit occurs in s starting at index i.
MatchesAt(s, lit, i) == i >= 1 /\ i + Len(lit) - 1 <= Len(s) /\ SubSeq(s, i, i + Len(lit) - 1) = lit

cPropTypes == <<"P", "r", "o", "p", "T", "y", "p", "e", "s">>
cIsRequired == <<"i", "s", "R", "e", "q", "u", "i", "r", "e", "d">>

\* Start indices of the matches of /PropTypes./ : the literal, then any one character.
PropTypesMatches(s) == {i \in 1..Len(s) : MatchesAt(s, cPropTypes, i) /\ i + Len(cPropTypes) <= Len(s)}

\* Start indices of the matches of /.isRequired/ : any one character, then the literal.
IsRequiredMatches(s) == {i \in 1..Len(s) : MatchesAt(s, cIsRequired, i + 1)}

Min(S) == CHOOSE x \in S : \A y \in S : x <= y

\* s.replace(/PropTypes./, ''): the first match only (no g flag).
StripPropTypes(s) ==
  IF PropTypesMatches(s) = {} THEN s
  ELSE LET i == Min(PropTypesMatches(s)) IN Take(s, i - 1) \o Drop(s, i + Len(cPropTypes))

\* s.replace(/.isRequired/, ''): the first match only.
StripIsRequired(s) ==
  IF IsRequiredMatches(s) = {} THEN s
  ELSE LET i == Min(IsRequiredMatches(s)) IN Take(s, i - 1) \o Drop(s, i + Len(cIsRequired))

\* /.isRequired/.test(s)
TestIsRequired(s) == IsRequiredMatches(s) # {}

----------------------------------------------------------------------------
\* JavaScript values of the propTypes table and of a classified default value.

JsString(v) == [t |-> "string", v |-> v]
JsTrue == [t |-> "boolean", v |-> "true"]
JsZero == [t |-> "number", v |-> "0"]
JsNull == [t |-> "null", v |-> "null"]
JsUndefined == [t |-> "undefined", v |-> "undefined"]
\* Object.prototype.constructor, as a template literal prints it.
JsObjectFn == [t |-> "function", v |-> "function Object() { [native code] }"]

\* ToBoolean: the operand test of ||.
Truthy(x) ==
  CASE x.t = "string" -> x.v # ""
    [] x.t = "boolean" -> x.v = "true"
    [] x.t = "number" -> x.v # "0"
    [] x.t = "function" -> TRUE
    [] OTHER -> FALSE

\* `${x}` in a template literal.
JsToString(x) == x.v

\* The own keys of the propTypes object literal.
propTypeKeys ==
  {"any", "boolean", "bool", "Function", "func", "immutable.list", "immutable.map",
   "number", "string", "union", "unknown"}

propTypes ==
  [k \in propTypeKeys |->
     CASE k = "any" -> JsString("''")
       [] k = "boolean" -> JsTrue
       [] k = "bool" -> JsTrue
       [] k = "Function" -> JsString("safeSpy()")
       [] k = "func" -> JsString("safeSpy()")
       [] k = "immutable.list" -> JsString("Immutable.List()")
       [] k = "immutable.map" -> JsString("Immutable.Map()")
       [] k = "number" -> JsZero
       [] k = "string" -> JsString("''")
       [] k = "union" -> JsString("''")
       [] k = "unknown" -> JsString("Immutable.fromJS()")]

\* Keys every object literal inherits from Object.prototype (the one the model draws).
InheritedKeys == {"constructor"}

\* propTypes[key]: own key, inherited member, or undefined.
PropTypesGet(key) ==
  IF key \in propTypeKeys THEN propTypes[key]
  ELSE IF key \in InheritedKeys THEN JsObjectFn
  ELSE JsUndefined

\* propTypes[defaultValue] || null
DefaultValueFor(key) == IF Truthy(PropTypesGet(key)) THEN PropTypesGet(key) ELSE JsNull

----------------------------------------------------------------------------
\* getFileAndComponentName

Lower == <<"a", "b", "c", "d", "e", "f", "g", "h", "i", "j", "k", "l", "m",
           "n", "o", "p", "q", "r", "s", "t", "u", "v", "w", "x", "y", "z">>
Upper == <<"A", "B", "C", "D", "E", "F", "G", "H", "I", "J", "K", "L", "M",
           "N", "O", "P", "Q", "R", "S", "T", "U", "V", "W", "X", "Y", "Z">>

IsLower(c) == \E k \in 1..Len(Lower) : Lower[k] = c
ToUpperCase(c) == IF IsLower(c) THEN Upper[CHOOSE k \in 1..Len(Lower) : Lower[k] = c] ELSE c

\* name.replace(/^[a-z]/, e => e[0].toUpperCase())
UpperFirst(s) == IF s # <<>> /\ IsLower(s[1]) THEN <<ToUpperCase(s[1])>> \o Tail(s) ELSE s

RECURSIVE CamelCase(_)
\* s.replace(/_([a-z])/g, e => e[1].toUpperCase())
CamelCase(s) ==
  IF s = <<>> THEN <<>>
  ELSE IF Len(s) >= 2 /\ s[1] = "_" /\ IsLower(s[2]) THEN <<ToUpperCase(s[2])>> \o CamelCase(Drop(s, 2))
  ELSE <<s[1]>> \o CamelCase(Tail(s))

ComponentNameOf(name) == CamelCase(UpperFirst(name))

cTestsDir == <<"/", "_", "_", "t", "e", "s", "t", "s", "_", "_">>

\* The command lines the model draws: process.argv[2] as path.parse splits it
\* (given: whether an argument is there at all).
Filepaths ==
  { [given |-> FALSE, dir |-> <<>>, name |-> <<>>],
    [given |-> TRUE, dir |-> <<"c", "o", "m", "p", "o", "n", "e", "n", "t", "s">>,
     name |-> <<"u", "s", "e", "r", "_", "c", "a", "r", "d">>] }

\* The data object the first stage resolves with.
FileAndComponentName(fp) ==
  [ componentName |-> Join(ComponentNameOf(fp.name)),
    componentFilePathName |-> Join(fp.name),
    testDirectory |-> fp.dir \o cTestsDir,
    testCasesFile |-> Join(fp.dir \o cTestsDir) \o "/" \o Join(fp.name) \o ".test_cases.js",
    testFile |-> Join(fp.dir \o cTestsDir) \o "/" \o Join(fp.name) \o ".test.js" ]

MsgFilepathRequired == "Filepath argument is required!"

----------------------------------------------------------------------------
\* The documentation object reactDocs.parse returns, and the inputs drawn.

\* A props entry: flowType (name, elements' names), type.raw (<<>>: no raw),
\* required ("true", "false" or "undefined").
PropValue(hasFlow, flowName, flowElems, hasType, raw, required) ==
  [ hasFlow |-> hasFlow, flowName |-> flowName, flowElems |-> flowElems,
    hasType |-> hasType, raw |-> raw, required |-> required ]

FlowProp(name, elems, required) == PropValue(TRUE, name, elems, FALSE, <<>>, required)
RawProp(raw, required) == PropValue(FALSE, "", <<>>, TRUE, raw, required)

cString == <<"s", "t", "r", "i", "n", "g">>
cNumber == <<"n", "u", "m", "b", "e", "r">>
cDot == <<".">>

PropValues ==
  { FlowProp("string", <<>>, "true"),
    FlowProp("boolean", <<>>, "false"),
    FlowProp("number", <<>>, "true"),
    FlowProp("union", <<"string", "number">>, "undefined"),
    FlowProp("Object", <<>>, "true"),
    FlowProp("constructor", <<>>, "false"),
    \* PropTypes.string.isRequired
    RawProp(cPropTypes \o cDot \o cString \o cDot \o cIsRequired, "true"),
    \* PropTypes.number
    RawProp(cPropTypes \o cDot \o cNumber, "false"),
    \* type: { name: 'string' }, no raw text
    PropValue(FALSE, "", <<>>, TRUE, <<>>, "true"),
    \* only a defaultValue or a description: no flowType and no type
    PropValue(FALSE, "", <<>>, FALSE, <<>>, "undefined") }

PropNames == {"name", "active", "base"}

\* Objects keep insertion order and their keys are distinct.
PropsObjects ==
  UNION { { ps \in [1..n -> [name : PropNames, value : PropValues]] :
              \A i, j \in 1..n : i # j => ps[i].name # ps[j].name } : n \in 0..MaxProps }

UndefinedComponent == [defined |-> FALSE, hasProps |-> FALSE, props |-> <<>>]

Components ==
  {[defined |-> TRUE, hasProps |-> FALSE, props |-> <<>>]}
    \cup {[defined |-> TRUE, hasProps |-> TRUE, props |-> ps] : ps \in PropsObjects}

\* What reactDocs.parse(content) does on the file: throws, or returns one documentation.
DirectParses == {[threw |-> TRUE, res |-> UndefinedComponent]} \cup {[threw |-> FALSE, res |-> c] : c \in Components}

\* What reactDocs.parse(content, findAllComponentDefinitions) does: throws, or returns an array.
WrappedParses ==
  {[threw |-> TRUE, res |-> <<>>], [threw |-> FALSE, res |-> <<>>]}
    \cup {[threw |-> FALSE, res |-> <<c>>] : c \in Components}
    \cup {[threw |-> FALSE, res |-> <<c, c>>] : c \in Components}

NoParse == [threw |-> TRUE, res |-> <<>>]

----------------------------------------------------------------------------
\* getComponentInfo

MsgReadFailed == "Error: ENOENT: no such file or directory"
MsgMoreThanOne == "Found more than one component definitions, could not automatically generate tests."
MsgFailedToAnalyze == "Failed to analyze component definition, could not automatically generate tests."

\* res[0]
First(res) == IF Len(res) >= 1 THEN res[1] ELSE UndefinedComponent

\* The then-callback of the second parse without its length test.
WrappedThenNoLengthTest(res) ==
  [rejected |-> FALSE, reason |-> "", component |-> First(res), wrapped |-> TRUE]

\* The then-callback of the second parse: reject when res.length > 1 (the later
\* resolve is then without effect), else take res[0] and resolve.
WrappedThen(res) ==
  [ rejected |-> Len(res) > 1,
    reason |-> IF Len(res) > 1 THEN MsgMoreThanOne ELSE "",
    component |-> First(res),
    wrapped |-> TRUE ]

\* The promise getComponentInfo returns, from what the file system and the two parses do.
ComponentInfo(readOk, direct, wrapped) ==
  IF ~readOk THEN [rejected |-> TRUE, reason |-> MsgReadFailed, component |-> UndefinedComponent, wrapped |-> FALSE]
  ELSE IF ~direct.threw THEN [rejected |-> FALSE, reason |-> "", component |-> direct.res, wrapped |-> FALSE]
  ELSE IF wrapped.threw THEN [rejected |-> TRUE, reason |-> MsgFailedToAnalyze, component |-> UndefinedComponent, wrapped |-> FALSE]
  ELSE WrappedThen(wrapped.res)

----------------------------------------------------------------------------
\* getPropDefaults

MsgCouldNotDeduce == "Could not deduce prop type"
MsgTypeErrorProps == "TypeError: Cannot read property 'props' of undefined"
MsgTypeErrorRaw == "TypeError: Cannot read property 'raw' of undefined"

\* The key the table is read with: the value of defaultValue before line 142.
EffectiveTypeName(value) ==
  IF value.hasFlow THEN
    IF value.flowName = "union" THEN value.flowElems[1] ELSE value.flowName
  ELSE IF value.raw # <<>> THEN Join(StripIsRequired(StripPropTypes(value.raw)))
  ELSE "any"

\* The else branch with required taken from the documentation's required flag.
ClassifyPropRequiredRead(name, value) ==
  IF value.hasFlow THEN
    [name |-> name, required |-> value.required, defaultValue |-> DefaultValueFor(EffectiveTypeName(value)), message |-> ""]
  ELSE IF value.raw # <<>> THEN
    [name |-> name, required |-> IF TestIsRequired(value.raw) THEN "true" ELSE "false",
     defaultValue |-> DefaultValueFor(EffectiveTypeName(value)), message |-> ""]
  ELSE
    [name |-> name, required |-> value.required, defaultValue |-> DefaultValueFor("any"), message |-> MsgCouldNotDeduce]

\* A diagnostic attached whenever the table has no value for the type.
ClassifyPropUnmappedMessage(name, value) ==
  IF value.hasFlow THEN
    [name |-> name, required |-> value.required, defaultValue |-> DefaultValueFor(EffectiveTypeName(value)),
     message |-> IF DefaultValueFor(EffectiveTypeName(value)) = JsNull THEN MsgCouldNotDeduce ELSE ""]
  ELSE IF value.raw # <<>> THEN
    [name |-> name, required |-> IF TestIsRequired(value.raw) THEN "true" ELSE "false",
     defaultValue |-> DefaultValueFor(EffectiveTypeName(value)),
     message |-> IF DefaultValueFor(EffectiveTypeName(value)) = JsNull THEN MsgCouldNotDeduce ELSE ""]
  ELSE
    [name |-> name, required |-> "undefined", defaultValue |-> DefaultValueFor("any"), message |-> MsgCouldNotDeduce]

\* One iteration of the for..in loop, for an entry it does not throw on.
ClassifyProp(name, value) ==
  IF value.hasFlow THEN
    [name |-> name, required |-> value.required, defaultValue |-> DefaultValueFor(EffectiveTypeName(value)), message |-> ""]
  ELSE IF value.raw # <<>> THEN
    [name |-> name, required |-> IF TestIsRequired(value.raw) THEN "true" ELSE "false",
     defaultValue |-> DefaultValueFor(EffectiveTypeName(value)), message |-> ""]
  ELSE
    [name |-> name, required |-> "undefined", defaultValue |-> DefaultValueFor("any"), message |-> MsgCouldNotDeduce]

\* value.type.raw is read of an undefined value.type: the iteration throws.
Throws(value) == ~value.hasFlow /\ ~value.hasType

\* The index of the first entry the loop throws on, 0 when there is none.
FirstThrow(props) ==
  IF \E i \in 1..Len(props) : Throws(props[i].value)
  THEN Min({i \in 1..Len(props) : Throws(props[i].value)})
  ELSE 0

\* The promise getPropDefaults returns, with data.classifiedProps as the loop left it.
PropDefaults(component) ==
  IF ~component.defined THEN [rejected |-> TRUE, reason |-> MsgTypeErrorProps, classifiedProps |-> <<>>]
  ELSE LET props == component.props
           k == FirstThrow(props)
           n == IF k = 0 THEN Len(props) ELSE k - 1
       IN [ rejected |-> k # 0,
            reason |-> IF k # 0 THEN MsgTypeErrorRaw ELSE "",
            classifiedProps |-> [i \in 1..n |-> ClassifyProp(props[i].name, props[i].value)] ]

----------------------------------------------------------------------------
\* generateTestCasesContent

RECURSIVE ReplaceSegments(_, _)
\* s.replace(/([^/]*)/g, () => '.') from index i on: every match, the empty ones
\* before a slash and at the end included, becomes one dot.
ReplaceSegments(s, i) ==
  LET stops == {j \in i..Len(s) : s[j] = "/"}
      run == IF stops = {} THEN Len(s) + 1 - i ELSE Min(stops) - i
  IN IF run > 0 THEN <<".">> \o ReplaceSegments(s, i + run)
     ELSE IF i > Len(s) THEN <<".">>
     ELSE <<".", s[i]>> \o ReplaceSegments(s, i + 1)

SafeSpyPrefix(testDirectory) == Join(ReplaceSegments(testDirectory, 1))

IsRequired(p) == p.required = "true"

\* data.classifiedProps.filter(p => p.required)
RequiredPropsOf(classifiedProps) ==
  LET F[i \in 0..Len(classifiedProps)] ==
        IF i = 0 THEN <<>>
        ELSE IF IsRequired(classifiedProps[i]) THEN Append(F[i - 1], classifiedProps[i]) ELSE F[i - 1]
  IN F[Len(classifiedProps)]

\* data.classifiedProps.filter(p => !p.required)
OptionalPropsOf(classifiedProps) ==
  LET F[i \in 0..Len(classifiedProps)] ==
        IF i = 0 THEN <<>>
        ELSE IF ~IsRequired(classifiedProps[i]) THEN Append(F[i - 1], classifiedProps[i]) ELSE F[i - 1]
  IN F[Len(classifiedProps)]

\* The line requiredPropsFormatted pushes for a property.
PropLine(name, defaultValue, punctuation, comment) ==
  "    " \o name \o ": " \o JsToString(defaultValue) \o punctuation \o comment

\* requiredPropsFormatted(excludeLastComma): one line per required property.
RequiredPropsFormatted(requiredProps, excludeLastComma) ==
  [ i \in 1..Len(requiredProps) |->
      PropLine(requiredProps[i].name, requiredProps[i].defaultValue,
               IF excludeLastComma /\ i = Len(requiredProps) THEN "" ELSE ",",
               IF requiredProps[i].message # "" THEN " // message" ELSE "") ]

LineNoPropTypes == "  props: {} // could not find prop type declarations"
LineNoRequired == "  props: {} // could not find required props"

BasePropsFormatted(component, requiredProps) ==
  IF ~component.hasProps THEN <<LineNoPropTypes>>
  ELSE IF Len(requiredProps) = 0 THEN <<LineNoRequired>>
  ELSE <<"  props: {">> \o RequiredPropsFormatted(requiredProps, TRUE) \o <<"  }">>

ExportLine(name) == "export const " \o name \o " = {"
ComponentLine(d) == "  component: " \o d.componentName \o (IF d.wrapped THEN ".WrappedComponent" ELSE "") \o ","

\* The block pushed for one optional property.
OptionalBlock(d, requiredProps, optionalProp) ==
  << ExportLine(optionalProp.name),
     "  description: '" \o optionalProp.name \o " optional prop',",
     ComponentLine(d),
     "  props: {" >>
  \o RequiredPropsFormatted(requiredProps, FALSE)
  \o << PropLine(optionalProp.name, optionalProp.defaultValue, "",
                 IF optionalProp.message # "" THEN " // " \o optionalProp.message ELSE ""),
        "  }",
        "};",
        "" >>

RECURSIVE Flatten(_)
Flatten(blocks) == IF blocks = <<>> THEN <<>> ELSE Head(blocks) \o Flatten(Tail(blocks))

\* data.testCasesContent, for data d with requiredProps and optionalProps set.
TestCasesContent(d) ==
  << "import Immutable from 'immutable';",
     "import safeSpy from '" \o SafeSpyPrefix(d.testDirectory) \o "/test/safe_spy';",
     "import { " \o d.componentName \o " } from '../" \o d.componentFilePathName \o "'",
     "",
     ExportLine("base"),
     "  description: 'base',",
     ComponentLine(d) >>
  \o BasePropsFormatted(d.component, d.requiredProps)
  \o << "}", "" >>
  \o Flatten([i \in 1..Len(d.optionalProps) |-> OptionalBlock(d, d.requiredProps, d.optionalProps[i])])

----------------------------------------------------------------------------
\* generateTestContent

\* testCaseNames starting empty instead of with 'base'.
TestCaseNamesNoBase(optionalProps) == [i \in 1..Len(optionalProps) |-> optionalProps[i].name]

\* testCaseNames: 'base', then the optional properties' names.
TestCaseNames(optionalProps) == <<"base">> \o [i \in 1..Len(optionalProps) |-> optionalProps[i].name]

DescribeLine(name) == "  describe(testCases." \o name \o ".description, () => {"

\* The lines pushed for the i-th of the names.
TestBlock(names, i) ==
  << DescribeLine(names[i]),
     "    beforeEach(() => {",
     "      testCase = testCases." \o names[i] \o ";",
     "      wrapper = shallow(React.createElement(testCase.component, testCase.props));",
     "    });",
     "",
     "    it('renders', () => {",
     "      expect(toJson(wrapper)).toMatchSnapshot();",
     "    });",
     "  });" >>
  \o (IF i # Len(names) THEN <<"">> ELSE <<>>)

\* data.testContent
TestContent(d) ==
  << "import React from 'react';",
     "import { shallow } from 'enzyme';",
     "import toJson from 'enzyme-to-json';",
     "import * as testCases from './" \o d.componentFilePathName \o ".test_cases';",
     "",
     "describe('<" \o d.componentName \o ">', () => {",
     "  let testCase;",
     "  let wrapper;",
     "" >>
  \o Flatten([i \in 1..Len(TestCaseNames(d.optionalProps)) |-> TestBlock(TestCaseNames(d.optionalProps), i)])
  \o << "});", "" >>

----------------------------------------------------------------------------
\* printMessage, formatMessage

\* console.log(`\n${message}\n`)
FormatMessage(message) == "\n" \o message \o "\n"

SuccessMessage(d) ==
  "Successfully created the following test files for " \o d.componentName \o ":"
    \o "\n  * " \o d.testCasesFile \o "\n  * " \o d.testFile

MsgMkdirFailed == "Error: EACCES: permission denied, mkdir"

----------------------------------------------------------------------------
\* The run

VARIABLES
  pc,         \* the link of the promise chain that runs next
  data,       \* the data object handed from link to link
  rejection,  \* the reason the chain was rejected with, "" while it is not
  printed,    \* what console.log has written, in order
  docgen,     \* what the file read and the two reactDocs.parse calls did
  dirExists,  \* whether the __tests__ directory is on disk
  mkdir,      \* fs.mkdir: "none", "pending", "done" or "failed"
  files,      \* each write stream: "none", "pending", "written" or "failed"
  crashed,    \* the process died of a stream's unhandled 'error' event
  stagesRun   \* the links that have started

vars == <<pc, data, rejection, printed, docgen, dirExists, mkdir, files, crashed, stagesRun>>

Streams == {"testCasesFile", "testFile"}

NoData ==
  [ given |-> FALSE, componentName |-> "", componentFilePathName |-> "", testDirectory |-> <<>>,
    testCasesFile |-> "", testFile |-> "", component |-> UndefinedComponent, wrapped |-> FALSE,
    classifiedProps |-> <<>>, requiredProps |-> <<>>, optionalProps |-> <<>>,
    testCasesContent |-> <<>>, testContent |-> <<>> ]

NoDocgen == [readOk |-> FALSE, direct |-> "none", wrapped |-> "none", wrappedLen |-> 0]

Init ==
  /\ pc = "getFileAndComponentName"
  /\ data = NoData
  /\ rejection = ""
  /\ printed = <<>>
  /\ docgen = NoDocgen
  /\ dirExists \in BOOLEAN
  /\ mkdir = "none"
  /\ files = [f \in Streams |-> "none"]
  /\ crashed = FALSE
  /\ stagesRun = {}

\* A link settles: rejected, the chain skips to the catch; resolved, the next link runs.
Settle(rejected, reason, next) ==
  /\ pc' = IF rejected THEN "catch" ELSE next
  /\ rejection' = IF rejected THEN reason ELSE rejection

Start(stage) == stagesRun' = stagesRun \cup {stage}

GetFileAndComponentName ==
  /\ pc = "getFileAndComponentName"
  /\ Start("getFileAndComponentName")
  /\ \E fp \in Filepaths :
       /\ data' = IF fp.given
                  THEN [data EXCEPT !.given = TRUE,
                                    !.componentName = FileAndComponentName(fp).componentName,
                                    !.componentFilePathName = FileAndComponentName(fp).componentFilePathName,
                                    !.testDirectory = FileAndComponentName(fp).testDirectory,
                                    !.testCasesFile = FileAndComponentName(fp).testCasesFile,
                                    !.testFile = FileAndComponentName(fp).testFile]
                  ELSE data
       /\ Settle(~fp.given, MsgFilepathRequired, "getComponentInfo")
  /\ UNCHANGED <<printed, docgen, dirExists, mkdir, files, crashed>>

\* The three ways the read and the parses can go: the read throws; the first
\* parse returns; the first parse throws and the second one is made.
ParseRuns ==
  {<<FALSE, [threw |-> TRUE, res |-> UndefinedComponent], NoParse>>}
    \cup {<<TRUE, d, NoParse>> : d \in {x \in DirectParses : ~x.threw}}
    \cup {<<TRUE, [threw |-> TRUE, res |-> UndefinedComponent], w>> : w \in WrappedParses}

GetComponentInfo ==
  /\ pc = "getComponentInfo"
  /\ Start("getComponentInfo")
  /\ \E run \in ParseRuns :
       LET info == ComponentInfo(run[1], run[2], run[3]) IN
       /\ docgen' = [ readOk |-> run[1],
                      direct |-> IF ~run[1] THEN "none" ELSE IF run[2].threw THEN "threw" ELSE "ok",
                      wrapped |-> IF ~run[1] \/ ~run[2].threw THEN "none"
                                  ELSE IF run[3].threw THEN "threw" ELSE "ok",
                      wrappedLen |-> Len(run[3].res) ]
       /\ data' = [data EXCEPT !.component = info.component, !.wrapped = info.wrapped]
       /\ Settle(info.rejected, info.reason, "getPropDefaults")
  /\ UNCHANGED <<printed, dirExists, mkdir, files, crashed>>

GetPropDefaults ==
  /\ pc = "getPropDefaults"
  /\ Start("getPropDefaults")
  /\ LET r == PropDefaults(data.component) IN
       /\ data' = [data EXCEPT !.classifiedProps = r.classifiedProps]
       /\ Settle(r.rejected, r.reason, "generateTestCasesContent")
  /\ UNCHANGED <<printed, docgen, dirExists, mkdir, files, crashed>>

GenerateTestCasesContent ==
  /\ pc = "generateTestCasesContent"
  /\ Start("generateTestCasesContent")
  /\ LET d == [data EXCEPT !.requiredProps = RequiredPropsOf(data.classifiedProps),
                           !.optionalProps = OptionalPropsOf(data.classifiedProps)]
     IN data' = [d EXCEPT !.testCasesContent = TestCasesContent(d)]
  /\ Settle(FALSE, "", "generateTestContent")
  /\ UNCHANGED <<printed, docgen, dirExists, mkdir, files, crashed>>

GenerateTestContent ==
  /\ pc = "generateTestContent"
  /\ Start("generateTestContent")
  /\ data' = [data EXCEPT !.testContent = TestContent(data)]
  /\ Settle(FALSE, "", "createTestsDir")
  /\ UNCHANGED <<printed, docgen, dirExists, mkdir, files, crashed>>

\* existsSync true: resolve at once; fs.mkdir is called all the same. Otherwise
\* the promise stays pending until the mkdir callback.
CreateTestsDir ==
  /\ pc = "createTestsDir"
  /\ Start("createTestsDir")
  /\ mkdir' = "pending"
  /\ pc' = IF dirExists THEN "createTestFiles" ELSE "awaitMkdir"
  /\ UNCHANGED <<data, rejection, printed, docgen, dirExists, files, crashed>>

\* The fs.mkdir callback. It runs once no link of the chain is ready to run. On a
\* settled promise its reject and resolve are without effect.
MkdirCallback ==
  /\ mkdir = "pending"
  /\ pc \in {"awaitMkdir", "done"}
  /\ ~crashed
  /\ \E ok \in BOOLEAN :
       /\ dirExists => ~ok
       /\ mkdir' = IF ok THEN "done" ELSE "failed"
       /\ dirExists' = (dirExists \/ ok)
       /\ IF pc = "awaitMkdir"
          THEN Settle(~ok, MsgMkdirFailed, "createTestFiles")
          ELSE UNCHANGED <<pc, rejection>>
  /\ UNCHANGED <<data, printed, docgen, files, crashed, stagesRun>>

\* Both streams are opened and written to, and the promise resolves at once.
CreateTestFiles ==
  /\ pc = "createTestFiles"
  /\ Start("createTestFiles")
  /\ files' = [f \in Streams |-> "pending"]
  /\ Settle(FALSE, "", "printMessage")
  /\ UNCHANGED <<data, printed, docgen, dirExists, mkdir, crashed>>

PrintMessage ==
  /\ pc = "printMessage"
  /\ Start("printMessage")
  /\ printed' = Append(printed, FormatMessage(SuccessMessage(data)))
  /\ pc' = "done"
  /\ UNCHANGED <<data, rejection, docgen, dirExists, mkdir, files, crashed>>

\* .catch(err => formatMessage(err))
Catch ==
  /\ pc = "catch"
  /\ Start("catch")
  /\ printed' = Append(printed, FormatMessage(rejection))
  /\ pc' = "done"
  /\ UNCHANGED <<data, rejection, docgen, dirExists, mkdir, files, crashed>>

\* A stream's open and write finish, after the chain has run to its end. A
\* failure is an 'error' event nobody listens to: the process dies of it.
WriteCallback ==
  /\ pc = "done"
  /\ ~crashed
  /\ \E f \in Streams, ok \in BOOLEAN :
       /\ files[f] = "pending"
       /\ files' = [files EXCEPT ![f] = IF ok THEN "written" ELSE "failed"]
       /\ crashed' = ~ok
  /\ UNCHANGED <<pc, data, rejection, printed, docgen, dirExists, mkdir, stagesRun>>

Next ==
  \/ GetFileAndComponentName
  \/ GetComponentInfo
  \/ GetPropDefaults
  \/ GenerateTestCasesContent
  \/ GenerateTestContent
  \/ CreateTestsDir
  \/ MkdirCallback
  \/ CreateTestFiles
  \/ PrintMessage
  \/ Catch
  \/ WriteCallback

Spec == Init /\ [][Next]_vars

----------------------------------------------------------------------------
\* Reading the emitted text back

Ran(stage) == stage \in stagesRun

ScenarioNames == PropNames \cup {"base"}
Punctuations == {"", ","}
Comments == {" // message", " // " \o MsgCouldNotDeduce}

\* The lines of content that open an exported scenario, and the name each exports.
ExportIdx(content) == {i \in 1..Len(content) : \E n \in ScenarioNames : content[i] = ExportLine(n)}
DescribeIdx(content) == {i \in 1..Len(content) : \E n \in ScenarioNames : content[i] = DescribeLine(n)}
ExportedName(line) == CHOOSE n \in ScenarioNames : line = ExportLine(n)
DescribedName(line) == CHOOSE n \in ScenarioNames : line = DescribeLine(n)

\* The k-th smallest element of a set of indices.
RECURSIVE Nth(_, _)
Nth(S, k) == IF k = 1 THEN Min(S) ELSE Nth(S \ {Min(S)}, k - 1)

\* The names the fixture module exports and those the test module describes, in order.
ExportedNames(content) ==
  [k \in 1..Cardinality(ExportIdx(content)) |-> ExportedName(content[Nth(ExportIdx(content), k)])]
DescribedNames(content) ==
  [k \in 1..Cardinality(DescribeIdx(content)) |-> DescribedName(content[Nth(DescribeIdx(content), k)])]

\* The lines of the scenario opened at line e: up to the next opening line.
BlockOf(content, e) ==
  {i \in e..Len(content) : \A j \in ExportIdx(content) : j > e => i < j}

\* The lines of content that set property q, whatever the punctuation and comment.
LinesOf(content, q) ==
  {i \in 1..Len(content) :
     \E p \in Punctuations, c \in Comments \cup {""} : content[i] = PropLine(q.name, q.defaultValue, p, c)}

ClassifiedIdx == 1..Len(data.classifiedProps)
RequiredIdx == {i \in ClassifiedIdx : data.classifiedProps[i].required = "true"}
OptionalIdx == ClassifiedIdx \ RequiredIdx
SeqRange(seq) == {seq[i] : i \in 1..Len(seq)}
SchemaIdx == 1..Len(data.component.props)
KeyOf(i) == EffectiveTypeName(data.component.props[i].value)
Success == FormatMessage(SuccessMessage(data))

\* Both emitters have run and nothing has touched the disk yet. From here on no
\* action changes data: these are the lines the streams are given.
Emitted == pc = "createTestsDir"

----------------------------------------------------------------------------
\* C1: when the first parse throws and the second returns two or more definitions,
\* the chain is rejected with the 'more than one component definitions' message,
\* that message is the only thing printed, no later stage starts (no classifier,
\* no emitter, no mkdir, no stream, no success summary) and no file is written.
AmbiguousRun == docgen.direct = "threw" /\ docgen.wrapped = "ok" /\ docgen.wrappedLen > 1

C1_AmbiguousRejected ==
  AmbiguousRun =>
    /\ rejection = MsgMoreThanOne
    /\ stagesRun \subseteq {"getFileAndComponentName", "getComponentInfo", "catch"}
    /\ mkdir = "none"
    /\ \A f \in Streams : files[f] = "none"
    /\ pc \in {"catch", "done"}
    /\ printed = IF pc = "done" THEN <<FormatMessage(MsgMoreThanOne)>> ELSE <<>>

C1_Witness == AmbiguousRun /\ pc = "done" /\ printed = <<FormatMessage(MsgMoreThanOne)>>

\* C2: when the first parse throws and the second throws or returns no
\* definition, the run ends having printed the 'Failed to analyze component
\* definition' message and nothing else, and no file is written.
UnparseableRun ==
  docgen.direct = "threw" /\ (docgen.wrapped = "threw" \/ (docgen.wrapped = "ok" /\ docgen.wrappedLen = 0))

C2_UnparseableRejected ==
  (UnparseableRun /\ pc = "done") =>
    /\ printed = <<FormatMessage(MsgFailedToAnalyze)>>
    /\ \A f \in Streams : files[f] = "none"

\* C3: every classified property's default value is the table's entry for its
\* effective type name (number gives 0), and null for a name that is no key.
C3_TableEntry ==
  Ran("getPropDefaults") =>
    \A i \in ClassifiedIdx :
      data.classifiedProps[i].defaultValue =
        IF KeyOf(i) \in propTypeKeys THEN propTypes[KeyOf(i)] ELSE JsNull

\* C4: with N required and M optional properties the fixture module has 1 + M
\* scenario blocks and the test module 1 + M nested blocks, in the same order,
\* 'base' first and then the optional properties in encounter order; required
\* and optional properties partition the classified ones; and when N > 0 every
\* required property is set exactly once in every scenario's block.
C4_ScenarioCount ==
  Emitted =>
    LET fixture == data.testCasesContent
        exports == ExportIdx(fixture)
        describes == DescribeIdx(data.testContent)
        optional == OptionalIdx
    IN /\ Cardinality(exports) = 1 + Cardinality(optional)
       /\ SeqRange(data.requiredProps) \cup SeqRange(data.optionalProps) = SeqRange(data.classifiedProps)
       /\ SeqRange(data.requiredProps) \cap SeqRange(data.optionalProps) = {}
       /\ Len(data.requiredProps) = Cardinality(RequiredIdx)
       /\ Len(data.optionalProps) = Cardinality(optional)
       /\ \A i \in RequiredIdx :
            LET lines == LinesOf(fixture, data.classifiedProps[i])
            IN \A e \in exports : Cardinality(lines \cap BlockOf(fixture, e)) = 1
       /\ Cardinality(describes) = 1 + Cardinality(optional)
       /\ DescribedNames(data.testContent) = ExportedNames(fixture)
       /\ DescribedNames(data.testContent)
            = <<"base">> \o [k \in 1..Cardinality(optional) |-> data.classifiedProps[Nth(optional, k)].name]

C4_Witness ==
  /\ Emitted
  /\ Cardinality(RequiredIdx) >= 1
  /\ Cardinality(OptionalIdx) >= 1
  /\ Cardinality(DescribeIdx(data.testContent)) >= 2

\* C5: the names the fixture module exports ('base' and each optional
\* property's name) are pairwise distinct, an optional property named 'base' included.
C5_DistinctScenarioNames ==
  Emitted =>
    \A i, j \in ExportIdx(data.testCasesContent) :
      i # j => data.testCasesContent[i] # data.testCasesContent[j]

\* The table has no entry for the key: the lookup finds no own key and no
\* inherited member.
NoTableValue(key) == key \notin propTypeKeys /\ key \notin InheritedKeys

HasUnmapped == \E i \in ClassifiedIdx : NoTableValue(KeyOf(i))

\* C6 (as claimed): a property whose effective type name has no entry in the
\* table is emitted with the value null together with a diagnostic trailing
\* comment on its line.
C6_UnmappedHasDiagnostic ==
  Emitted =>
    \A i \in ClassifiedIdx :
      NoTableValue(KeyOf(i)) =>
        LET q == data.classifiedProps[i]
            lines == LinesOf(data.testCasesContent, q)
        IN /\ q.defaultValue = JsNull
           /\ lines # {}
           /\ \A l \in lines : \E p \in Punctuations, c \in Comments :
                data.testCasesContent[l] = PropLine(q.name, JsNull, p, c)

\* C6 (amended): a property whose effective type name the table has no value for
\* is never an error. It is classified null with no diagnostic, every line that
\* sets it reads `name: null` with no trailing comment, the classifier throws
\* only on an entry without type information (or an undefined component), and
\* the run goes on: it ends with both streams opened and the success summary
\* printed, unless fs.mkdir fails.
C6_UnmappedNullNoDiagnostic ==
  /\ Ran("getPropDefaults") =>
       /\ \A i \in ClassifiedIdx :
            NoTableValue(KeyOf(i)) =>
              /\ data.classifiedProps[i].defaultValue = JsNull
              /\ data.classifiedProps[i].message = ""
       /\ rejection \in {MsgTypeErrorProps, MsgTypeErrorRaw} =>
            \/ ~data.component.defined
            \/ \E k \in SchemaIdx : ~data.component.props[k].value.hasFlow /\ ~data.component.props[k].value.hasType
       /\ (\A k \in SchemaIdx : NoTableValue(KeyOf(k))) /\ data.component.defined =>
            rejection \notin {MsgTypeErrorProps, MsgTypeErrorRaw}
  /\ Emitted =>
       \A i \in ClassifiedIdx :
         NoTableValue(KeyOf(i)) =>
           LET q == data.classifiedProps[i]
               lines == LinesOf(data.testCasesContent, q)
           IN /\ lines # {}
              /\ \A l \in lines : \E p \in Punctuations :
                   data.testCasesContent[l] = PropLine(q.name, JsNull, p, "")
  /\ (pc = "done" /\ Ran("generateTestContent") /\ HasUnmapped) =>
       \/ rejection = "" /\ printed = <<Success>> /\ \A f \in Streams : files[f] # "none"
       \/ rejection = MsgMkdirFailed /\ \A f \in Streams : files[f] = "none"

C6_Witness ==
  /\ pc = "done"
  /\ HasUnmapped
  /\ \A f \in Streams : files[f] = "written"
  /\ \E i \in ClassifiedIdx :
       /\ NoTableValue(KeyOf(i))
       /\ \E l \in 1..Len(data.testCasesContent) :
            data.testCasesContent[l] = PropLine(data.classifiedProps[i].name, JsNull, ",", "")

\* C7: every terminal failure (missing argument, read failure, unparseable or
\* ambiguous component, mkdir failure, failure of either file write) ends the run
\* with exactly one failure message printed and the success summary never printed.
TerminalFailure == rejection # "" \/ \E f \in Streams : files[f] = "failed"

C7_OneFailureMessage ==
  (pc = "done" /\ TerminalFailure) => Len(printed) = 1 /\ printed[1] # Success

\* C8: the streams are opened only once the test directory is known to exist, and
\* the success summary is printed only after both writes have completed: it is
\* never printed while a write is pending or has failed.
C8_SummaryAfterWrites ==
  /\ (\E f \in Streams : files[f] # "none") => dirExists
  /\ (\E k \in 1..Len(printed) : printed[k] = Success) => \A f \in Streams : files[f] = "written"

\* C9: a property with neither a flowType nor a type.raw text, one with no type
\* information at all included, is classified without error as any: value '',
\* the 'Could not deduce prop type' diagnostic, not required; and the run goes on
\* to emission.
NoTypeText(value) == ~value.hasFlow /\ value.raw = <<>>

C9_UndeducedIsAny ==
  (Ran("getPropDefaults") /\ data.component.defined) =>
    /\ rejection # MsgTypeErrorRaw
    /\ \A i \in SchemaIdx :
         NoTypeText(data.component.props[i].value) =>
           /\ i \in ClassifiedIdx
           /\ data.classifiedProps[i] =
                [ name |-> data.component.props[i].name, required |-> "undefined",
                  defaultValue |-> JsString("''"), message |-> MsgCouldNotDeduce ]

\* C10: a classified property with a diagnostic message is never required: it is
\* in optionalProps and not in requiredProps, no line of a required property
\* carries a trailing comment, and a line with a comment is an optional
\* property's own line, with that property's message.
C10_DiagnosticOnlyOnOptional ==
  /\ \A i \in ClassifiedIdx :
       data.classifiedProps[i].message # "" => data.classifiedProps[i].required # "true"
  /\ Emitted =>
       /\ \A q \in SeqRange(data.requiredProps) : q.message = ""
       /\ \A q \in SeqRange(data.classifiedProps) : q.message # "" => q \in SeqRange(data.optionalProps)
       /\ \A q \in SeqRange(data.classifiedProps) :
            \A l \in 1..Len(data.testCasesContent), p \in Punctuations, c \in Comments :
              data.testCasesContent[l] = PropLine(q.name, q.defaultValue, p, c) =>
                /\ q \in SeqRange(data.optionalProps)
                /\ p = ""
                /\ c = " // " \o q.message

C10_Witness ==
  /\ Emitted
  /\ data.requiredProps # <<>>
  /\ \E q \in SeqRange(data.optionalProps) :
       /\ q.message # ""
       /\ \E l \in 1..Len(data.testCasesContent) :
            data.testCasesContent[l] = PropLine(q.name, q.defaultValue, "", " // " \o q.message)

====
